---- MODULE Spec2Model ----
(***************************************************************************)
(* A model of docx2python/iterators.py: the depth-indexed traversal        *)
(* (enum_at_depth, iter_at_depth and their fixed-depth aliases), the leaf  *)
(* join (join_leaves) and the html map (get_html_map).                     *)
(*                                                                         *)
(* A Python value carries its type: a list is L(<<elements>>), a str is    *)
(* S(<<characters>>), each character a one-character string.  Python       *)
(* indices are zero-based: element i of a list x is x.v[i + 1].  The lists *)
(* of a run live in `heap`, one tree per root object; a reference to a     *)
(* list is the root's name and the path from it, so two names of one list  *)
(* are the same reference, and a write through one is seen through both.   *)
(***************************************************************************)
EXTENDS Integers, Sequences, FiniteSets, TLC

VARIABLES heap,       \* root name -> the nested list stored under it
          treeDepth,  \* the depth at which the strings of heap.caller lie
          fn,         \* the function that was called
          depthArg,   \* the depth argument of the call
          it,         \* the iterator the call returned, or a loop runs on
          status,     \* idle, returned, exhausted, raised, running, done
          err,        \* the exception raised
          out,        \* what the iterator yielded so far
          advances,   \* how many times the iterator was advanced
          jointArg,   \* join_leaves: the separator
          toDepthArg, \* join_leaves: the depth to collapse to
          result,     \* what join_leaves or get_html_map returned
          pc,         \* get_html_map: the loop that is running
          tables_4deep, \* get_html_map: the working copy
          snapshot    \* get_html_map: the caller's tree before the call

vars == <<heap, treeDepth, fn, depthArg, it, status, err, out, advances,
          jointArg, toDepthArg, result, pc, tables_4deep, snapshot>>

joinVars == <<jointArg, toDepthArg>>
htmlVars == <<pc, tables_4deep, snapshot>>

(***************************************************************************)
(* Bounds of the model and constants of the program.                       *)
(***************************************************************************)
\* most elements (lists and leaves, at all levels) of a traversed tree
MaxNodes == 6
\* deepest tree handed to the traversal
MaxTreeDepth == 5
\* the depth arguments tried reach DepthSlack past the unsupported
\* neighbours 0 and 6 downwards, and DepthSlack past 5 upwards
DepthSlack == 1
\* the supported depths, iterators.py lines 207 and 229
MinDepth == 1
MaxDepth == 5

DepthArgs == (MinDepth - DepthSlack - 1) .. (MaxDepth + DepthSlack)

DepthMsg == "depth argument must be 1, 2, 3, 4, or 5"
TypeErrorMsg == "TypeError"

(***************************************************************************)
(* Python values.                                                          *)
(***************************************************************************)
L(elems) == [t |-> "list", v |-> elems]
S(chars) == [t |-> "str", v |-> chars]
IsStr(x) == x.t = "str"

\* what iterating over x hands out: the elements of a list, the characters
\* of a str
Elems(x) ==
    IF IsStr(x) THEN [k \in 1..Len(x.v) |-> S(<<x.v[k]>>)] ELSE x.v

\* the items at the leaves of a traversed tree
Atoms == {S(<<"a">>), S(<<"b">>)}

RECURSIVE ForestsExact(_, _, _), ElemExact(_, _, _)
\* the values with exactly n elements, themselves included, that can sit in
\* a list whose leaves lie D levels below it
ElemExact(D, n, leaves) ==
    IF D = 1 THEN (IF n = 1 THEN leaves ELSE {})
    ELSE IF n = 0 THEN {} ELSE ForestsExact(D - 1, n - 1, leaves)

\* the lists with exactly n elements below them, leaves at depth D
ForestsExact(D, n, leaves) ==
    IF n = 0 THEN {L(<< >>)}
    ELSE UNION { { L(<<x>> \o f.v) : x \in ElemExact(D, k, leaves),
                                     f \in ForestsExact(D, n - k, leaves) }
                 : k \in 1..n }

\* the uniformly nested lists with leaves at depth D and at most N elements
Trees(D, N, leaves) == UNION { ForestsExact(D, n, leaves) : n \in 0..N }

RECURSIVE Index(_, _)
\* tree[a1][a2]...[ad]
Index(tree, addr) ==
    IF addr = << >> THEN tree ELSE Index(tree.v[addr[1] + 1], Tail(addr))

RECURSIVE SetAt(_, _, _)
\* tree[a1][a2]...[ad] = value
SetAt(tree, addr, value) ==
    IF Len(addr) = 1 THEN [tree EXCEPT !.v[addr[1] + 1] = value]
    ELSE [tree EXCEPT !.v[addr[1] + 1] = SetAt(@, Tail(addr), value)]

Ref(root, path) == [root |-> root, path |-> path]
Deref(h, ref) == Index(h[ref.root], ref.path)
Child(ref, i) == Ref(ref.root, Append(ref.path, i))

\* x[a1]...[ad] = value, for the list x that ref names
Store(h, ref, addr, value) ==
    [h EXCEPT ![ref.root] = SetAt(@, ref.path \o addr, value)]

\* the sequence of the doctests of enum_at_depth and iter_at_depth
Fixture ==
    L(<< L(<< L(<< L(<<S(<<"a">>), S(<<"b">>)>>), L(<<S(<<"c">>)>>) >>),
              L(<< L(<<S(<<"d">>), S(<<"e">>)>>) >>) >>),
         L(<< L(<< L(<<S(<<"f">>)>>), L(<<S(<<"g">>), S(<<"h">>)>>) >>) >>) >>)
FixtureDepth == 4

(***************************************************************************)
(* enum_at_depth: a generator.  A generator object holds the frames of the *)
(* nested `for i, x in enumerate(nested)` loops that are suspended at a    *)
(* yield: frames[k] is the loop of enum_at_depth(x, depth - k + 1), with   *)
(* the list it enumerates and how many elements enumerate has handed out.  *)
(***************************************************************************)
NoItem == "<none>"

Stopped(frames) ==
    [kind |-> "stop", addr |-> << >>, item |-> NoItem, frames |-> frames]

\* a variant of HasNext that stops one element early
HasNext_DropLast(f, nested) == f.next < Len(nested) - 1

\* `for i, x in enumerate(nested)` has another element to hand out
HasNext(f, nested) == f.next < Len(nested)

\* a variant of ReYield that puts the index after the sub-address: (*j, i)
ReYield_Append(i, j) == j \o <<i>>

\* the address re-yielded around a sub-address: (i, *j)
ReYield(i, j) == <<i>> \o j

RECURSIVE enum_body(_, _, _, _)
\* run frames[k], the body of enum_at_depth(nested, depth), to its next
\* yield, its end or its raise
enum_body(h, depth, frames, k) ==
    LET f == frames[k]
        nested == Elems(Deref(h, f.nested))
    IN  IF depth = 1 THEN
            IF HasNext(f, nested)
            THEN [kind |-> "yield", addr |-> <<f.next>>,
                  item |-> nested[f.next + 1],
                  frames |-> [frames EXCEPT ![k].next = @ + 1]]
            ELSE Stopped(SubSeq(frames, 1, k - 1))
        ELSE IF depth = 2 \/ depth = 3 \/ depth = 4 \/ depth = 5 THEN
            IF Len(frames) > k THEN
                \* suspended in `for j, y in enum_at_depth(x, depth_minus_one)`
                LET r == enum_body(h, depth - 1, frames, k + 1)
                IN  IF r.kind = "yield"
                    THEN [r EXCEPT !.addr = ReYield(f.next - 1, @)]
                    ELSE enum_body(h, depth, r.frames, k)
            ELSE IF HasNext(f, nested) THEN
                \* the next i, x of enumerate(nested)
                enum_body(h, depth,
                          Append([frames EXCEPT ![k].next = @ + 1],
                                 [nested |-> Child(f.nested, f.next), next |-> 0]),
                          k)
            ELSE Stopped(SubSeq(frames, 1, k - 1))
        ELSE [kind |-> "raise", addr |-> << >>, item |-> DepthMsg,
              frames |-> << >>]

NoIter == [kind |-> "none"]

Returned(iter) == [raised |-> FALSE, err |-> "", it |-> iter]
Raised(msg) == [raised |-> TRUE, err |-> msg, it |-> NoIter]

\* a generator of enum_at_depth that has not run yet
Generator(nested, depth) ==
    [kind |-> "generator", depth |-> depth, state |-> "created",
     frames |-> << [nested |-> nested, next |-> 0] >>]

\* a variant of enum_at_depth that is no generator function: its depth test
\* runs at the call
enum_at_depth_eager(nested, depth) ==
    IF depth \in 1..5 THEN Returned(Generator(nested, depth))
    ELSE Raised(DepthMsg)

\* the call enum_at_depth(nested, depth): a generator function runs none of
\* its body at the call
enum_at_depth(nested, depth) == Returned(Generator(nested, depth))

\* the generator expression (x for _, x in enum_at_depth(nested, depth))
GenExpr(nested, depth) ==
    [kind |-> "genexpr", inner |-> enum_at_depth(nested, depth).it]

\* a variant of iter_at_depth without its own depth tests
iter_at_depth_lazy(nested, depth) == Returned(GenExpr(nested, depth))

\* a variant of iter_at_depth whose tests stop at depth 4
iter_at_depth_upto4(nested, depth) ==
    IF depth \in 1..4 THEN Returned(GenExpr(nested, depth))
    ELSE Raised(DepthMsg)

\* the call iter_at_depth(nested, depth): no generator function
iter_at_depth(nested, depth) ==
    IF depth = 1 THEN Returned(GenExpr(nested, depth))
    ELSE IF depth = 2 THEN Returned(GenExpr(nested, depth))
    ELSE IF depth = 3 THEN Returned(GenExpr(nested, depth))
    ELSE IF depth = 4 THEN Returned(GenExpr(nested, depth))
    ELSE IF depth = 5 THEN Returned(GenExpr(nested, depth))
    ELSE Raised(DepthMsg)

\* next(g) of a generator of enum_at_depth
next_generator(h, g) ==
    IF g.state = "closed"
    THEN [kind |-> "stop", value |-> NoItem, it |-> g]
    ELSE LET r == enum_body(h, g.depth, g.frames, 1)
         IN  [kind |-> r.kind,
              value |-> IF r.kind = "yield" THEN <<r.addr, r.item>> ELSE r.item,
              it |-> [g EXCEPT !.state = IF r.kind = "yield" THEN "suspended"
                                         ELSE "closed",
                               !.frames = r.frames]]

\* next(i) of an iterator: a generator, or a generator expression over one
next(h, iter) ==
    IF iter.kind = "generator" THEN next_generator(h, iter)
    ELSE LET r == next_generator(h, iter.inner)
         IN  [kind |-> r.kind,
              value |-> IF r.kind = "yield" THEN r.value[2] ELSE r.value,
              it |-> [iter EXCEPT !.inner = r.it]]

iter_tables(tables) == iter_at_depth(tables, 1)
iter_rows(tables) == iter_at_depth(tables, 2)
iter_cells(tables) == iter_at_depth(tables, 3)
iter_paragraphs(tables) == iter_at_depth(tables, 4)
enum_tables(tables) == enum_at_depth(tables, 1)
enum_rows(tables) == enum_at_depth(tables, 2)
\* a variant of enum_cells bound to the depth of rows
enum_cells_as_rows(tables) == enum_at_depth(tables, 2)
enum_cells(tables) == enum_at_depth(tables, 3)
enum_paragraphs(tables) == enum_at_depth(tables, 4)

(***************************************************************************)
(* The traversal specification: a caller holds a tree, calls one of the    *)
(* traversal functions on it and advances the iterator it got.             *)
(***************************************************************************)
Caller == Ref("caller", << >>)

Idle ==
    /\ fn = "none" /\ depthArg = 0 /\ it = NoIter /\ status = "idle"
    /\ err = "" /\ out = << >> /\ advances = 0
    /\ result = S(<< >>)
    /\ pc = "none" /\ tables_4deep = Caller /\ snapshot = L(<< >>)

InitTrav ==
    /\ \E D \in 1..MaxTreeDepth :
          /\ treeDepth = D
          /\ \E tree \in Trees(D, MaxNodes, Atoms)
                         \cup (IF D = FixtureDepth THEN {Fixture} ELSE {}) :
                heap = [caller |-> tree, copy |-> L(<< >>)]
    /\ jointArg = S(<< >>) /\ toDepthArg = 0
    /\ Idle

\* what the caller holds: after a call, and after one more next(it)
AfterCall(r) ==
    [status |-> IF r.raised THEN "raised" ELSE "returned", err |-> r.err,
     it |-> r.it, out |-> << >>, advances |-> 0]

AfterNext(h, s) ==
    LET r == next(h, s.it)
    IN  [status |-> CASE r.kind = "yield" -> "returned"
                      [] r.kind = "stop" -> "exhausted"
                      [] r.kind = "raise" -> "raised",
         err |-> IF r.kind = "raise" THEN r.value ELSE s.err,
         it |-> r.it,
         out |-> IF r.kind = "yield" THEN Append(s.out, r.value) ELSE s.out,
         advances |-> s.advances + 1]

Holding ==
    [status |-> status, err |-> err, it |-> it, out |-> out,
     advances |-> advances]

\* the caller's call is made: the iterator is kept, or the exception seen
Call(name, depth, r) ==
    /\ status = "idle"
    /\ fn' = name
    /\ depthArg' = depth
    /\ it' = AfterCall(r).it
    /\ status' = AfterCall(r).status
    /\ err' = AfterCall(r).err
    /\ UNCHANGED <<heap, treeDepth, out, advances, result, joinVars, htmlVars>>

\* a depth the tree has, or one that is not supported
Usable(depth) == depth \in MinDepth..MaxDepth => depth <= treeDepth

Call_enum_at_depth ==
    \E depth \in DepthArgs :
        Usable(depth) /\ Call("enum_at_depth", depth, enum_at_depth(Caller, depth))

Call_iter_at_depth ==
    \E depth \in DepthArgs :
        Usable(depth) /\ Call("iter_at_depth", depth, iter_at_depth(Caller, depth))

Call_iter_tables == treeDepth >= 1 /\ Call("iter_tables", 0, iter_tables(Caller))
Call_iter_rows == treeDepth >= 2 /\ Call("iter_rows", 0, iter_rows(Caller))
Call_iter_cells == treeDepth >= 3 /\ Call("iter_cells", 0, iter_cells(Caller))
Call_iter_paragraphs ==
    treeDepth >= 4 /\ Call("iter_paragraphs", 0, iter_paragraphs(Caller))
Call_enum_tables == treeDepth >= 1 /\ Call("enum_tables", 0, enum_tables(Caller))
Call_enum_rows == treeDepth >= 2 /\ Call("enum_rows", 0, enum_rows(Caller))
Call_enum_cells == treeDepth >= 3 /\ Call("enum_cells", 0, enum_cells(Caller))
Call_enum_paragraphs ==
    treeDepth >= 4 /\ Call("enum_paragraphs", 0, enum_paragraphs(Caller))

\* the caller's next(it)
Advance ==
    /\ status = "returned"
    /\ LET s == AfterNext(heap, Holding)
       IN  /\ it' = s.it
           /\ out' = s.out
           /\ status' = s.status
           /\ err' = s.err
           /\ advances' = s.advances
    /\ UNCHANGED <<heap, treeDepth, fn, depthArg, result, joinVars, htmlVars>>

NextTrav ==
    \/ Call_enum_at_depth
    \/ Call_iter_at_depth
    \/ Call_iter_tables
    \/ Call_iter_rows
    \/ Call_iter_cells
    \/ Call_iter_paragraphs
    \/ Call_enum_tables
    \/ Call_enum_rows
    \/ Call_enum_cells
    \/ Call_enum_paragraphs
    \/ Advance

SpecTrav == InitTrav /\ [][NextTrav]_vars

(***************************************************************************)
(* join_leaves.                                                            *)
(***************************************************************************)
\* most elements of a tree handed to join_leaves, and the deepest to_depth
MaxJoinNodes == 5
MaxToDepth == 3

Joints == {S(<< >>), S(<<",">>), S(<<",", " ">>)}
Leaves == {S(<< >>), S(<<"a">>), S(<<",", "b">>)}

\* the exception str.join raises on an item that is no str
TypeErr == [t |-> "TypeError", v |-> << >>]
IsErr(x) == x.t = "TypeError"

RECURSIVE JoinChars(_, _)
\* strs[0] + joint + strs[1] + joint + ... + strs[n-1]
JoinChars(joint, strs) ==
    IF Len(strs) = 0 THEN << >>
    ELSE IF Len(strs) = 1 THEN strs[1].v
    ELSE strs[1].v \o joint \o JoinChars(joint, Tail(strs))

\* joint.join(iterable)
str_join(joint, iterable) ==
    LET items == Elems(iterable)
    IN  IF \E k \in 1..Len(items) : ~IsStr(items[k]) THEN TypeErr
        ELSE S(JoinChars(joint.v, items))

RECURSIVE join_leaves_trailing(_, _, _, _)
\* a variant of join_leaves that writes the separator after the last leaf too
join_leaves_trailing(joint, str_tree, to_depth, _depth) ==
    IF _depth = to_depth
    THEN LET r == str_join(joint, str_tree)
         IN  IF IsErr(r) \/ Len(Elems(str_tree)) = 0 THEN r
             ELSE S(r.v \o joint.v)
    ELSE LET bs == Elems(str_tree)
             rs == [b \in 1..Len(bs) |->
                       join_leaves_trailing(joint, bs[b], to_depth, _depth + 1)]
         IN  IF \E b \in 1..Len(rs) : IsErr(rs[b]) THEN TypeErr ELSE L(rs)

RECURSIVE join_leaves(_, _, _, _)
\* join_leaves(joint, str_tree, to_depth, _depth): the value returned, or the
\* exception that left it
join_leaves(joint, str_tree, to_depth, _depth) ==
    IF _depth = to_depth THEN str_join(joint, str_tree)
    ELSE LET bs == Elems(str_tree)
             rs == [b \in 1..Len(bs) |->
                       join_leaves(joint, bs[b], to_depth, _depth + 1)]
         IN  IF \E b \in 1..Len(rs) : IsErr(rs[b]) THEN TypeErr ELSE L(rs)

Run1 == S(<<"r", "u", "n", "1">>)
Run2 == S(<<"r", "u", "n", "2">>)
Run3 == S(<<"r", "u", "n", "3">>)
Run4 == S(<<"r", "u", "n", "4">>)
\* the runs of the docstring of join_leaves, and what it says they join to
DocRuns == L(<< L(<< L(<< L(<< L(<<Run1, Run2>>), L(<<Run3, Run4>>) >>) >>) >>) >>)
DocRunsDepth == 5
DocJoined ==
    L(<< L(<< L(<< L(<< S(Run1.v \o Run2.v), S(Run3.v \o Run4.v) >>) >>) >>) >>)

InitJoin ==
    /\ \/ \E to_depth \in 0..MaxToDepth :
             /\ toDepthArg = to_depth
             /\ treeDepth = to_depth + 1
             /\ jointArg \in Joints
             /\ \E str_tree \in Trees(to_depth + 1, MaxJoinNodes, Leaves) :
                   heap = [caller |-> str_tree, copy |-> L(<< >>)]
       \/ /\ toDepthArg \in {DocRunsDepth - 2, DocRunsDepth - 1}
          /\ treeDepth = DocRunsDepth
          /\ jointArg = S(<< >>)
          /\ heap = [caller |-> DocRuns, copy |-> L(<< >>)]
    /\ Idle

Call_join_leaves ==
    /\ status = "idle"
    /\ fn' = "join_leaves"
    /\ LET r == join_leaves(jointArg, heap.caller, toDepthArg, 0)
       IN  IF IsErr(r)
           THEN status' = "raised" /\ err' = TypeErrorMsg /\ result' = result
           ELSE status' = "done" /\ err' = err /\ result' = r
    /\ UNCHANGED <<heap, treeDepth, depthArg, it, out, advances, joinVars, htmlVars>>

NextJoin == Call_join_leaves

SpecJoin == InitJoin /\ [][NextJoin]_vars

(***************************************************************************)
(* get_html_map.                                                           *)
(***************************************************************************)
\* most elements of a tree handed to get_html_map
MaxHtmlNodes == 7
\* tables, rows, cells, paragraphs, runs
HtmlDepth == 5

\* the markup get_html_map writes
PreOpen ==
    <<"<", "p", "r", "e", ">">>
PreClose ==
    <<"<", "/", "p", "r", "e", ">">>
TdOpen ==
    <<"<", "t", "d", ">">>
TdClose ==
    <<"<", "/", "t", "d", ">">>
TrOpen ==
    <<"<", "t", "r", ">">>
TrClose ==
    <<"<", "/", "t", "r", ">">>
TableOpen ==
    <<"<", "t", "a", "b", "l", "e", " ", "b", "o", "r", "d", "e", "r",
      "=", "\"", "1", "\"", ">">>
TableClose ==
    <<"<", "/", "t", "a", "b", "l", "e", ">">>
HtmlOpen ==
    <<"<", "h", "t", "m", "l", ">", "<", "b", "o", "d", "y", ">">>
HtmlClose ==
    <<"<", "/", "b", "o", "d", "y", ">", "<", "/", "h", "t", "m", "l", ">">>

RunStrings ==
    {S(<< >>), S(<<"a">>), S(<<"<", "p">>), S(<<"r", "e", ">">>), S(TdOpen), S(TrOpen),
     S(<<"<", "t", "a", "b", "l", "e">>)}

Digits == <<"0", "1", "2", "3", "4", "5", "6", "7", "8", "9">>

RECURSIVE DecimalChars(_)
DecimalChars(n) ==
    IF n < 10 THEN <<Digits[n + 1]>>
    ELSE DecimalChars(n \div 10) \o <<Digits[(n % 10) + 1]>>

\* str(n) of an int that is not negative
str_int(n) == S(DecimalChars(n))

\* a variant of str_tuple that puts a bare comma between the items
str_tuple_bare_comma(tuple) ==
    S(<<"(">> \o JoinChars(<<",">>, [k \in 1..Len(tuple) |-> str_int(tuple[k])])
      \o (IF Len(tuple) = 1 THEN <<",">> ELSE << >>) \o <<")">>)

\* str(tuple) of a tuple of ints: "(0, 0, 1, 0)", and "(0,)" for one item
str_tuple(tuple) ==
    S(<<"(">> \o JoinChars(<<",", " ">>, [k \in 1..Len(tuple) |-> str_int(tuple[k])])
      \o (IF Len(tuple) = 1 THEN <<",">> ELSE << >>) \o <<")">>)

RECURSIVE py_repr(_)
\* repr(x), of strings that hold no quote and no backslash
py_repr(x) ==
    IF IsStr(x) THEN S(<<"'">> \o x.v \o <<"'">>)
    ELSE S(<<"[">> \o JoinChars(<<",", " ">>, [k \in 1..Len(x.v) |-> py_repr(x.v[k])])
           \o <<"]">>)

\* str(x), and {x} in an f-string
py_str(x) == IF IsStr(x) THEN x ELSE py_repr(x)

\* f"<pre>{x}</pre>"
fmt_pre(x) == S(PreOpen \o py_str(x).v \o PreClose)
\* f"<td>{x}</td>"
fmt_td(x) == S(TdOpen \o py_str(x).v \o TdClose)
\* a variant of fmt_tr that writes the tags of a cell
fmt_tr_as_td(x) == S(TdOpen \o py_str(x).v \o TdClose)
\* f"<tr>{x}</tr>"
fmt_tr(x) == S(TrOpen \o py_str(x).v \o TrClose)
\* f'<table border="1">{x}</table>'
fmt_table(x) == S(TableOpen \o py_str(x).v \o TableClose)

\* [str(x) for x in cell]
cell_strs_of(cell) == L([k \in 1..Len(Elems(cell)) |-> py_str(Elems(cell)[k])])

\* [f"<pre>{x}</pre>" for x in cell_strs]
pres_of(cell_strs) == L([k \in 1..Len(Elems(cell_strs)) |-> fmt_pre(Elems(cell_strs)[k])])

\* [f"<td>{x}</td>" for x in row]
tds_of(row) == L([k \in 1..Len(Elems(row)) |-> fmt_td(Elems(row)[k])])

\* [f"<tr>{x}</tr>" for x in table]
trs_of(table) == L([k \in 1..Len(Elems(table)) |-> fmt_tr(Elems(table)[k])])

\* [f'<table border="1">{x}</table>' for x in tables_1deep]
tables_of(tables_1deep) ==
    L([k \in 1..Len(Elems(tables_1deep)) |-> fmt_table(Elems(tables_1deep)[k])])

Empty == S(<< >>)

\* a variant of deepcopy that hands back the list it was given
deepcopy_alias(h, ref) == [heap |-> h, ref |-> ref]

\* copy.deepcopy(x) of the list that ref names: new lists all the way down,
\* held by the root "copy"
deepcopy(h, ref) ==
    [heap |-> [h EXCEPT !.copy = Deref(h, ref)], ref |-> Ref("copy", << >>)]

InitHtml ==
    /\ treeDepth = HtmlDepth
    /\ \E tables \in Trees(HtmlDepth, MaxHtmlNodes, RunStrings) :
          heap = [caller |-> tables, copy |-> L(<< >>)]
    /\ jointArg = S(<< >>) /\ toDepthArg = 0
    /\ Idle

\* get_html_map(tables) is called: the copy is made and the first loop entered
Html_Call ==
    /\ status = "idle"
    /\ fn' = "get_html_map"
    /\ status' = "running"
    /\ snapshot' = heap.caller
    /\ LET copied == deepcopy(heap, Caller)
       IN  heap' = copied.heap /\ tables_4deep' = copied.ref
    /\ it' = enum_at_depth(Caller, 4).it
    /\ pc' = "paragraphs"
    /\ UNCHANGED <<treeDepth, depthArg, err, out, advances, result, joinVars>>

HtmlRaise ==
    /\ status' = "raised" /\ err' = TypeErrorMsg /\ pc' = "raised"
    /\ UNCHANGED <<heap, it>>

\* one turn of `for (i, j, k, m), paragraph in enum_at_depth(tables, 4)`
Html_Paragraphs ==
    /\ pc = "paragraphs"
    /\ LET r == next(heap, it)
       IN  IF r.kind = "yield" THEN
               LET par_text == str_join(Empty, r.value[2])
               IN  IF IsErr(par_text) THEN HtmlRaise
                   ELSE /\ heap' = Store(heap, tables_4deep, r.value[1],
                                         str_join(S(<<" ">>),
                                                  L(<<str_tuple(r.value[1]), par_text>>)))
                        /\ it' = r.it
                        /\ UNCHANGED <<pc, status, err>>
           ELSE /\ it' = enum_at_depth(tables_4deep, 3).it
                /\ pc' = "cells"
                /\ UNCHANGED <<heap, status, err>>
    /\ UNCHANGED <<treeDepth, fn, depthArg, out, advances, result, joinVars,
                   tables_4deep, snapshot>>

\* one turn of `for (i, j, k), cell in enum_at_depth(tables_4deep, 3)`
Html_Cells ==
    /\ pc = "cells"
    /\ LET r == next(heap, it)
       IN  IF r.kind = "yield" THEN
               LET cell_strs == cell_strs_of(r.value[2])
               IN  /\ heap' = Store(heap, tables_4deep, r.value[1],
                                    str_join(Empty, pres_of(cell_strs)))
                   /\ it' = r.it
                   /\ pc' = pc
           ELSE /\ it' = enum_at_depth(tables_4deep, 2).it
                /\ pc' = "rows"
                /\ heap' = heap
    /\ UNCHANGED <<treeDepth, fn, depthArg, status, err, out, advances, result,
                   joinVars, tables_4deep, snapshot>>

\* one turn of `for (i, j), row in enum_at_depth(tables_3deep, 2)`
Html_Rows ==
    /\ pc = "rows"
    /\ LET r == next(heap, it)
       IN  IF r.kind = "yield" THEN
               /\ heap' = Store(heap, tables_4deep, r.value[1],
                                str_join(Empty, tds_of(r.value[2])))
               /\ it' = r.it
               /\ pc' = pc
           ELSE /\ it' = enum_at_depth(tables_4deep, 1).it
                /\ pc' = "tables"
                /\ heap' = heap
    /\ UNCHANGED <<treeDepth, fn, depthArg, status, err, out, advances, result,
                   joinVars, tables_4deep, snapshot>>

\* one turn of `for (i,), table in enum_at_depth(tables_2deep, 1)`; after the
\* last, the tables are wrapped and joined and the document returned
Html_Tables ==
    /\ pc = "tables"
    /\ LET r == next(heap, it)
       IN  IF r.kind = "yield" THEN
               /\ heap' = Store(heap, tables_4deep, r.value[1],
                                str_join(Empty, trs_of(r.value[2])))
               /\ it' = r.it
               /\ UNCHANGED <<pc, status, result>>
           ELSE LET tables_ == str_join(Empty,
                                        tables_of(Deref(heap, tables_4deep)))
                IN  /\ result' = S(HtmlOpen \o tables_.v \o HtmlClose)
                    /\ pc' = "done"
                    /\ status' = "done"
                    /\ UNCHANGED <<heap, it>>
    /\ UNCHANGED <<treeDepth, fn, depthArg, err, out, advances, joinVars,
                   tables_4deep, snapshot>>

NextHtml ==
    \/ Html_Call
    \/ Html_Paragraphs
    \/ Html_Cells
    \/ Html_Rows
    \/ Html_Tables

SpecHtml == InitHtml /\ [][NextHtml]_vars

(***************************************************************************)
(* Properties of the traversal.                                            *)
(***************************************************************************)
Supported(depth) == depth \in MinDepth..MaxDepth

RECURSIVE AddressesAt(_, _)
\* the addresses of the nodes d levels below tree
AddressesAt(tree, d) ==
    IF d = 0 THEN {<< >>}
    ELSE UNION { { <<i - 1>> \o a : a \in AddressesAt(tree.v[i], d - 1) }
                 : i \in 1..Len(tree.v) }

Addrs(o) == [k \in 1..Len(o) |-> o[k][1]]

\* a comes before b in lexicographic order
LexLess(a, b) ==
    \E k \in 1..Len(a) :
        /\ k <= Len(b)
        /\ \A j \in 1..(k - 1) : a[j] = b[j]
        /\ a[k] < b[k]

RECURSIVE AfterNexts(_, _, _)
\* what a caller holds after n more next(it), stopping where the iterator
\* ended
AfterNexts(h, s, n) ==
    IF n = 0 \/ s.status # "returned" THEN s
    ELSE AfterNexts(h, AfterNext(h, s), n - 1)

\* a caller that made call r and advanced its iterator n times
Run(h, r, n) == AfterNexts(h, AfterCall(r), n)

\* two callers saw the same: the same exception or none, the same number of
\* values, and equal values (compared by eq)
SameSeen(a, b, eq(_, _)) ==
    /\ a.status = b.status
    /\ a.err = b.err
    /\ a.advances = b.advances
    /\ Len(a.out) = Len(b.out)
    /\ \A k \in 1..Len(a.out) : eq(a.out[k], b.out[k])

EqItem(x, y) == x = y
EqPair(x, y) == x[1] = y[1] /\ x[2] = y[2]
EqItemOfPair(x, y) == x = y[2]

\* C1: enum_at_depth(tree, d), d in 1..5, yields pairs (address, item) with an
\* address of d indices that is a node's and the item tree[a1]...[ad], no
\* address twice, and once exhausted it has yielded every node at depth d.
C1_EnumYieldsNodesAtDepth ==
    (fn = "enum_at_depth" /\ Supported(depthArg)) =>
        /\ \A k \in 1..Len(out) :
              /\ Len(out[k]) = 2
              /\ Len(out[k][1]) = depthArg
              /\ out[k][1] \in AddressesAt(heap.caller, depthArg)
              /\ out[k][2] = Index(heap.caller, out[k][1])
              /\ \A j \in 1..(k - 1) : out[j][1] # out[k][1]
        /\ status = "exhausted" =>
              { out[k][1] : k \in 1..Len(out) } = AddressesAt(heap.caller, depthArg)

\* an exhausted enumeration below a tree with an empty branch on the way down
C1_Witness ==
    /\ fn = "enum_at_depth" /\ depthArg = 3 /\ status = "exhausted"
    /\ Len(out) >= 2
    /\ \E i \in 1..Len(heap.caller.v) : heap.caller.v[i] = L(<< >>)

FixtureAt3 ==
    << <<0, 0, 0>>, <<0, 0, 1>>, <<0, 1, 0>>, <<1, 0, 0>>, <<1, 0, 1>> >>

\* C2: the addresses enum_at_depth yields come in strictly increasing
\* lexicographic order; on the fixture at depth 3 they are (0,0,0), (0,0,1),
\* (0,1,0), (1,0,0), (1,0,1).
C2_EnumLexicographicOrder ==
    (fn = "enum_at_depth" /\ Supported(depthArg)) =>
        /\ \A k \in 1..(Len(out) - 1) : LexLess(out[k][1], out[k + 1][1])
        /\ (treeDepth = FixtureDepth /\ heap.caller = Fixture /\ depthArg = 3
            /\ status = "exhausted") => Addrs(out) = FixtureAt3

\* the fixture enumerated at depth 3 to its end
C2_Witness ==
    /\ fn = "enum_at_depth" /\ depthArg = 3 /\ status = "exhausted"
    /\ treeDepth = FixtureDepth /\ heap.caller = Fixture

\* C3 as stated: at every point a caller of iter_at_depth(tree, d) has seen
\* what a caller of enum_at_depth(tree, d) has seen after as many advances,
\* items for pairs: the same values, the same end, the same exception.
C3_IterSameAsEnum ==
    fn = "iter_at_depth" =>
        SameSeen(Holding, Run(heap, enum_at_depth(Caller, depthArg), advances),
                 EqItemOfPair)

\* C3 amended: with a depth in 1..5, iter_at_depth yields the items of the
\* pairs of enum_at_depth, in the same order, and ends where it ends; with
\* any other depth iter_at_depth raises at the call the ValueError that
\* enum_at_depth raises on the first advance of its iterator.
C3_IterProjectsEnum ==
    fn = "iter_at_depth" =>
        IF Supported(depthArg)
        THEN SameSeen(Holding, Run(heap, enum_at_depth(Caller, depthArg), advances),
                      EqItemOfPair)
        ELSE LET e == Run(heap, enum_at_depth(Caller, depthArg), 1)
             IN  /\ status = "raised" /\ advances = 0 /\ out = << >>
                 /\ e.status = "raised" /\ e.err = err /\ e.out = << >>

\* iter_at_depth run to its end over at least two items below the top level
C3_Witness ==
    /\ fn = "iter_at_depth" /\ depthArg >= 2 /\ Supported(depthArg)
    /\ status = "exhausted" /\ Len(out) >= 2

\* C4 as stated: once either function was called with a depth outside 1..5,
\* on any tree, the call has raised the ValueError whose message names the
\* range.
C4_InvalidDepthRaisesAtCall ==
    (fn \in {"enum_at_depth", "iter_at_depth"} /\ ~Supported(depthArg)) =>
        (status = "raised" /\ err = DepthMsg)

\* C4 amended: with a depth outside 1..5 neither function yields anything or
\* ends normally, on any tree: iter_at_depth raises the ValueError at the
\* call, enum_at_depth at the first advance of the iterator its call
\* returned, and the message names the range.
C4_InvalidDepthRaises ==
    (fn \in {"enum_at_depth", "iter_at_depth"} /\ ~Supported(depthArg)) =>
        /\ out = << >>
        /\ status \in {"returned", "raised"}
        /\ status = "raised" => err = DepthMsg
        /\ status = "returned" => (fn = "enum_at_depth" /\ advances = 0)

\* the empty tree enumerated at depth 6
C4_Witness ==
    /\ fn = "enum_at_depth" /\ depthArg = MaxDepth + 1 /\ heap.caller = L(<< >>)
    /\ status = "raised" /\ err = DepthMsg

AliasDepth ==
    [iter_tables |-> 1, iter_rows |-> 2, iter_cells |-> 3, iter_paragraphs |-> 4,
     enum_tables |-> 1, enum_rows |-> 2, enum_cells |-> 3, enum_paragraphs |-> 4]
IterAliases == {"iter_tables", "iter_rows", "iter_cells", "iter_paragraphs"}
EnumAliases == {"enum_tables", "enum_rows", "enum_cells", "enum_paragraphs"}

\* C9: a caller of iter_tables, iter_rows, iter_cells, iter_paragraphs sees
\* what a caller of iter_at_depth at depth 1, 2, 3, 4 sees, and a caller of
\* enum_tables, ... what a caller of enum_at_depth at that depth sees.
C9_AliasesAreFixedDepthCalls ==
    /\ fn \in IterAliases =>
          SameSeen(Holding, Run(heap, iter_at_depth(Caller, AliasDepth[fn]), advances),
                   EqItem)
    /\ fn \in EnumAliases =>
          SameSeen(Holding, Run(heap, enum_at_depth(Caller, AliasDepth[fn]), advances),
                   EqPair)

\* enum_cells run to its end over at least two cells
C9_Witness ==
    fn = "enum_cells" /\ status = "exhausted" /\ Len(out) >= 2

\* C10: with a depth outside 1..5, the call of enum_at_depth returns an
\* iterator and raises nothing; the first advance raises the ValueError with
\* nothing yielded; the call of iter_at_depth raises and returns no iterator.
C10_EnumRaisesOnFirstAdvance ==
    /\ (fn = "enum_at_depth" /\ ~Supported(depthArg)) =>
          /\ advances = 0 => (status = "returned" /\ err = "" /\ it.kind = "generator")
          /\ advances >= 1 =>
                (advances = 1 /\ status = "raised" /\ err = DepthMsg /\ out = << >>)
    /\ (fn = "iter_at_depth" /\ ~Supported(depthArg)) =>
          (advances = 0 /\ status = "raised" /\ err = DepthMsg /\ it = NoIter)

\* a tree with nodes enumerated at depth 0: the first advance has raised
C10_Witness ==
    /\ fn = "enum_at_depth" /\ depthArg = MinDepth - 1 /\ heap.caller # L(<< >>)
    /\ advances = 1 /\ status = "raised"

(***************************************************************************)
(* Properties of join_leaves.                                              *)
(***************************************************************************)
RECURSIVE Offset(_, _, _)
\* where child k starts in a string that holds the children with a
\* separator of length n between neighbours
Offset(children, n, k) ==
    IF k = 1 THEN 0
    ELSE Offset(children, n, k - 1) + Len(children[k - 1].v) + n

\* s is the children in order with joint between neighbours and nowhere else
IsJoined(s, joint, children) ==
    LET n == Len(children)
        off(k) == Offset(children, Len(joint.v), k)
    IN  /\ IsStr(s)
        /\ Len(s.v) = IF n = 0 THEN 0 ELSE off(n) + Len(children[n].v)
        /\ \A k \in 1..n :
              SubSeq(s.v, off(k) + 1, off(k) + Len(children[k].v)) = children[k].v
        /\ \A k \in 1..(n - 1) :
              SubSeq(s.v, off(k) + Len(children[k].v) + 1, off(k + 1)) = joint.v

\* join_leaves has run on a tree whose strings lie one level below to_depth
JoinedOneLevel ==
    fn = "join_leaves" /\ status # "idle" /\ treeDepth = toDepthArg + 1

\* for such a tree join_leaves raises nothing, keeps every level above
\* to_depth as it was, and puts at every node at to_depth the join of the
\* node's children
JoinsAtDepth ==
    JoinedOneLevel =>
        /\ status = "done"
        /\ \A d \in 0..toDepthArg :
              AddressesAt(result, d) = AddressesAt(heap.caller, d)
        /\ \A a \in AddressesAt(heap.caller, toDepthArg) :
              IsJoined(Index(result, a), jointArg, Index(heap.caller, a).v)

\* join_leaves('', the runs of the docstring, to_depth) gave what the
\* docstring shows
DocExample(to_depth) ==
    (fn = "join_leaves" /\ status # "idle" /\ treeDepth = DocRunsDepth
     /\ heap.caller = DocRuns /\ toDepthArg = to_depth) =>
        (status = "done" /\ result = DocJoined)

RECURSIVE CatAll(_)
\* the strings of a sequence one after the other
CatAll(strs) == IF Len(strs) = 0 THEN << >> ELSE strs[1] \o CatAll(Tail(strs))

\* the runs of a paragraph with nothing between them
ParText(paragraph) == CatAll([r \in 1..Len(paragraph.v) |-> paragraph.v[r].v])

\* "(i, j, k, m)"
AddressText(i, j, k, m) ==
    <<"(">> \o DecimalChars(i) \o <<",", " ">> \o DecimalChars(j) \o <<",", " ">>
    \o DecimalChars(k) \o <<",", " ">> \o DecimalChars(m) \o <<")">>

ExpectedCell(i, j, k, cell) ==
    CatAll([m \in 1..Len(cell.v) |->
               PreOpen \o AddressText(i, j, k, m - 1) \o <<" ">>
               \o ParText(cell.v[m]) \o PreClose])

ExpectedRow(i, j, row) ==
    CatAll([k \in 1..Len(row.v) |->
               TdOpen \o ExpectedCell(i, j, k - 1, row.v[k]) \o TdClose])

ExpectedTable(i, table) ==
    CatAll([j \in 1..Len(table.v) |->
               TrOpen \o ExpectedRow(i, j - 1, table.v[j]) \o TrClose])

ExpectedHtml(tables) ==
    HtmlOpen
    \o CatAll([i \in 1..Len(tables.v) |->
                  TableOpen \o ExpectedTable(i - 1, tables.v[i]) \o TableClose])
    \o HtmlClose

\* C6: get_html_map returns '<html><body>', then per table
\* '<table border="1">', per row '<tr>', per cell '<td>', per paragraph
\* '<pre>' + str((i, j, k, m)) + ' ' + its runs + '</pre>', each closed in
\* turn, then '</body></html>', (i, j, k, m) the paragraph's address in the
\* tree that was passed.
C6_HtmlMapText ==
    (fn = "get_html_map" /\ status # "running") =>
        (status = "done" /\ result = S(ExpectedHtml(snapshot)))

\* a map of at least two paragraphs and at least one run
C6_Witness ==
    /\ fn = "get_html_map" /\ status = "done"
    /\ Cardinality(AddressesAt(snapshot, 4)) >= 2
    /\ AddressesAt(snapshot, 5) # {}

\* how often pattern occurs in text
Count(pattern, text) ==
    Cardinality({ at \in 1..(Len(text) - Len(pattern) + 1) :
                    SubSeq(text, at, at + Len(pattern) - 1) = pattern })

RECURSIVE InTextsAt(_, _, _)
\* how often pattern occurs in the texts of the paragraphs at addrs
InTextsAt(pattern, tables, addrs) ==
    IF addrs = {} THEN 0
    ELSE LET a == CHOOSE x \in addrs : TRUE
         IN  Count(pattern, ParText(Index(tables, a)))
             + InTextsAt(pattern, tables, addrs \ {a})

\* how often pattern occurs in the texts of the paragraphs of tables
InTexts(pattern, tables) == InTextsAt(pattern, tables, AddressesAt(tables, 4))

NodesAt(tables, d) == Cardinality(AddressesAt(tables, d))

TablePrefix == <<"<", "t", "a", "b", "l", "e">>

StartsWith(text, prefix) ==
    Len(text) >= Len(prefix) /\ SubSeq(text, 1, Len(prefix)) = prefix
EndsWith(text, suffix) ==
    /\ Len(text) >= Len(suffix)
    /\ SubSeq(text, Len(text) - Len(suffix) + 1, Len(text)) = suffix

\* C7 as stated: whatever the runs hold, the map holds '<table' once per
\* table, '<tr>' once per row, '<td>' once per cell and '<pre>' once per
\* paragraph, and no more; it begins '<html><body>' and ends '</body></html>'.
C7_HtmlMapCountsAsStated ==
    (fn = "get_html_map" /\ status = "done") =>
        /\ Count(TablePrefix, result.v) = NodesAt(snapshot, 1)
        /\ Count(TrOpen, result.v) = NodesAt(snapshot, 2)
        /\ Count(TdOpen, result.v) = NodesAt(snapshot, 3)
        /\ Count(PreOpen, result.v) = NodesAt(snapshot, 4)
        /\ StartsWith(result.v, HtmlOpen)
        /\ EndsWith(result.v, HtmlClose)

\* C7 amended: the map holds '<table' once per table, '<tr>' once per row,
\* '<td>' once per cell and '<pre>' once per paragraph, and once more for
\* every time the text of a paragraph (its runs joined) holds that text; it
\* begins '<html><body>' and ends '</body></html>'.
C7_HtmlMapCounts ==
    (fn = "get_html_map" /\ status = "done") =>
        /\ Count(TablePrefix, result.v)
              = NodesAt(snapshot, 1) + InTexts(TablePrefix, snapshot)
        /\ Count(TrOpen, result.v) = NodesAt(snapshot, 2) + InTexts(TrOpen, snapshot)
        /\ Count(TdOpen, result.v) = NodesAt(snapshot, 3) + InTexts(TdOpen, snapshot)
        /\ Count(PreOpen, result.v) = NodesAt(snapshot, 4) + InTexts(PreOpen, snapshot)
        /\ StartsWith(result.v, HtmlOpen)
        /\ EndsWith(result.v, HtmlClose)

\* a map of a paragraph whose two runs make '<pre>' between them
C7_Witness ==
    /\ fn = "get_html_map" /\ status = "done"
    /\ InTexts(PreOpen, snapshot) = 1
    /\ \A a \in AddressesAt(snapshot, 5) : Count(PreOpen, Index(snapshot, a).v) = 0

\* C8: from the call on, the caller's tree equals what it was at the call,
\* and the tree get_html_map writes to is not the caller's.
C8_CallerTreeUntouched ==
    fn = "get_html_map" =>
        (heap.caller = snapshot /\ tables_4deep.root # Caller.root)

\* a returned map of a tree with a paragraph, a cell, a row and a table to
\* rewrite
C8_Witness ==
    /\ fn = "get_html_map" /\ status = "done"
    /\ AddressesAt(snapshot, 4) # {}

====
